---- MODULE Spec2Model ----
(***************************************************************************)
(* mltrace: the lineage model of src/mltrace/db/models.py (the ORM         *)
(* classes Component, Tag, Label, IOPointer, ComponentRun) and of          *)
(* src/mltrace/entities/component_run.py (the client-side ComponentRun).   *)
(*                                                                         *)
(* Python objects are records of their attributes, held in heaps indexed   *)
(* by allocation order (the index is the object's identity).  Python       *)
(* values that a caller can pass where a type is checked are tagged        *)
(* records [type, v].                                                      *)
(***************************************************************************)
EXTENDS Naturals, Sequences, FiniteSets, TLC

(* ---------------------------------------------------------------------- *)
(* Bounds                                                                  *)
(* ---------------------------------------------------------------------- *)
\* datetime.utcnow() ranges over 0..MaxClock
MaxClock == 1
\* db-layer IOPointer objects constructed in one behaviour
MaxPointers == 2
\* longest list passed to a bulk call (add_inputs, add_outputs, set_upstream)
MaxBulk == 2
\* longest staleness log
MaxStale == 2
\* db-layer Tag objects constructed in one behaviour
MaxTags == 3
\* db-layer Label objects constructed in one behaviour
MaxLabels == 2
\* longest list of labels attached to one IOPointer
MaxAttached == 3
\* list objects in the heap: the four defaults and those made by calls
MaxLists == 7

(* ---------------------------------------------------------------------- *)
(* Python values                                                           *)
(* ---------------------------------------------------------------------- *)
None == [type |-> "NoneType", v |-> 0]
datetime(t) == [type |-> "datetime", v |-> t]
\* strings are numbered: str(0) is "", str(1) a non-empty text
str(s) == [type |-> "str", v |-> s]
int(n) == [type |-> "int", v |-> n]

isinstance(x, t) == x.type = t

\* Python truthiness of a value (None, 0 and "" are falsy)
bool(x) ==
    /\ x.type # "NoneType"
    /\ ~(x.type = "int" /\ x.v = 0)
    /\ ~(x.type = "str" /\ x.v = 0)

Times == 0..MaxClock
\* what a caller may pass as ts: nothing (None), a datetime, a str, an int
TimestampArgs == {None} \cup {datetime(t) : t \in Times} \cup {str(1), int(1)}
\* what a caller may pass as notes
NotesArgs == {str(0), str(1), int(1), None}

ComponentNames == {"etl", "training", "inference"}

VARIABLES
    component_runs,   \* heap of db-layer ComponentRun objects (models.py)
    io_pointers,      \* heap of db-layer IOPointer objects (models.py)
    entity_runs,      \* heap of entity-layer ComponentRun objects
    clock,            \* the value datetime.utcnow() returns
    next_id,          \* the store's next primary key for component_runs
    last,             \* the last call made: [op, self, exc, ret]
    components,       \* heap of db-layer Component objects (models.py)
    tags,             \* heap of db-layer Tag objects (models.py)
    labels,           \* heap of db-layer Label objects (models.py)
    lists             \* heap of the Python list objects the entity layer holds

\* the heaps that the methods of ComponentRun and the clock leave alone
others == <<components, tags, labels, lists>>

vars ==
    <<component_runs, io_pointers, entity_runs, clock, next_id, last, others>>

\* what a call that returns nothing leaves in last.ret
NoRet == None
Call(op, self, exc, ret) ==
    [op |-> op, self |-> self, exc |-> exc, ret |-> ret]
Returned(op, self) == Call(op, self, "none", NoRet)
Raised(op, self, exc) == Call(op, self, exc, NoRet)
\* the step is the call op on self
Called(op, self) == last'.op = op /\ last'.self = self

Range(s) == {s[i] : i \in DOMAIN s}

\* the lists of at most n elements of S
RECURSIVE ListsUpTo(_, _)
ListsUpTo(S, n) ==
    IF n = 0 THEN {<<>>}
    ELSE LET shorter == ListsUpTo(S, n - 1)
         IN  shorter \cup {Append(l, x) : l \in shorter, x \in S}

(* ---------------------------------------------------------------------- *)
(* db layer: ComponentRun (models.py)                                      *)
(* ---------------------------------------------------------------------- *)
\* ComponentRun.__init__(component_name); unset columns read as None
ComponentRun__init__(component_name) ==
    [component_name |-> component_name,
     id |-> None,
     notes |-> str(0),
     start_timestamp |-> None,
     end_timestamp |-> None,
     inputs |-> <<>>,
     outputs |-> <<>>,
     dependencies |-> <<>>,
     stale |-> <<>>]

DbRuns == DOMAIN component_runs

utcnow == datetime(clock)

\* faulty variant of set_start_timestamp: the isinstance check is dropped
set_start_timestamp_no_check(self, arg) ==
    LET ts == IF arg = None THEN utcnow ELSE arg
    IN  /\ component_runs' =
               [component_runs EXCEPT ![self].start_timestamp = ts]
        /\ last' = Returned("set_start_timestamp", self)
        /\ UNCHANGED <<others, io_pointers, entity_runs, clock, next_id>>

set_start_timestamp(self, arg) ==
    LET ts == IF arg = None THEN utcnow ELSE arg
    IN  IF ~isinstance(ts, "datetime")
        THEN /\ last' = Raised("set_start_timestamp", self, "TypeError")
             /\ UNCHANGED
                    <<others, component_runs, io_pointers, entity_runs, clock, next_id>>
        ELSE /\ component_runs' =
                    [component_runs EXCEPT ![self].start_timestamp = ts]
             /\ last' = Returned("set_start_timestamp", self)
             /\ UNCHANGED <<others, io_pointers, entity_runs, clock, next_id>>

set_end_timestamp(self, arg) ==
    LET ts == IF arg = None THEN utcnow ELSE arg
    IN  IF ~isinstance(ts, "datetime")
        THEN /\ last' = Raised("set_end_timestamp", self, "TypeError")
             /\ UNCHANGED
                    <<others, component_runs, io_pointers, entity_runs, clock, next_id>>
        ELSE /\ component_runs' =
                    [component_runs EXCEPT ![self].end_timestamp = ts]
             /\ last' = Returned("set_end_timestamp", self)
             /\ UNCHANGED <<others, io_pointers, entity_runs, clock, next_id>>

add_notes(self, notes) ==
    IF ~isinstance(notes, "str")
    THEN /\ last' = Raised("add_notes", self, "TypeError")
         /\ UNCHANGED
                <<others, component_runs, io_pointers, entity_runs, clock, next_id>>
    ELSE /\ component_runs' = [component_runs EXCEPT ![self].notes = notes]
         /\ last' = Returned("add_notes", self)
         /\ UNCHANGED <<others, io_pointers, entity_runs, clock, next_id>>

(* ---------------------------------------------------------------------- *)
(* list(set(xs)) and the equality it rests on                              *)
(* ---------------------------------------------------------------------- *)
\* The ORM classes IOPointer and ComponentRun define neither __eq__ nor
\* __hash__: two references are equal when they are the same object
object__eq__(p, q) == p = q

\* set(xs) keeps, of the elements that are equal, the one inserted first;
\* this is xs without its later equal elements, in insertion order
RECURSIVE FirstOccurrences(_, _)
FirstOccurrences(xs, acc) ==
    IF xs = <<>> THEN acc
    ELSE FirstOccurrences(
             Tail(xs),
             IF \E i \in DOMAIN acc : object__eq__(acc[i], Head(xs))
             THEN acc ELSE Append(acc, Head(xs)))

\* object.__hash__ derives from the object's identity (its address); the
\* heap index stands for it
hash(obj) == obj

\* list(set(xs)): CPython lists a set in hash-slot order, so the elements
\* appear once each, ordered by their hash
ListOfSet(xs) ==
    SortSeq(FirstOccurrences(xs, <<>>), LAMBDA p, q : hash(p) < hash(q))

(* ---------------------------------------------------------------------- *)
(* db layer: IOPointer (models.py)                                         *)
(* ---------------------------------------------------------------------- *)
PointerNames == {"a"}
ByteValues == {"", "v"}

\* IOPointer.__init__(name, value), pointer_type and labels at their defaults
IOPointer__init__(name, value) ==
    [name |-> name,
     value |-> value,
     pointer_type |-> "UNKNOWN",
     flag |-> FALSE,
     labels |-> <<>>]

Pointers == DOMAIN io_pointers

\* the constructor call, allocating the next IOPointer object
IOPointerConstruct(name, value) ==
    /\ Len(io_pointers) < MaxPointers
    /\ io_pointers' = Append(io_pointers, IOPointer__init__(name, value))
    /\ last' = Returned("IOPointer.__init__", Len(io_pointers) + 1)
    /\ UNCHANGED <<others, component_runs, entity_runs, clock, next_id>>

\* faulty variant of _add_io: the elements are appended, the set() is dropped
_add_io_no_dedup(run, elems, input) ==
    IF input
    THEN [run EXCEPT !.inputs = run.inputs \o elems]
    ELSE [run EXCEPT !.outputs = run.outputs \o elems]

\* ComponentRun._add_io: the run with elems added (elems is a list here)
_add_io(run, elems, input) ==
    IF input
    THEN [run EXCEPT !.inputs = ListOfSet(run.inputs \o elems)]
    ELSE [run EXCEPT !.outputs = ListOfSet(run.outputs \o elems)]

add_input(self, input) ==
    /\ component_runs' =
           [component_runs EXCEPT
               ![self] = _add_io(component_runs[self], <<input>>, TRUE)]
    /\ last' = Returned("add_input", self)
    /\ UNCHANGED <<others, io_pointers, entity_runs, clock, next_id>>

add_inputs(self, inputs) ==
    /\ component_runs' =
           [component_runs EXCEPT
               ![self] = _add_io(component_runs[self], inputs, TRUE)]
    /\ last' = Returned("add_inputs", self)
    /\ UNCHANGED <<others, io_pointers, entity_runs, clock, next_id>>

add_output(self, output) ==
    /\ component_runs' =
           [component_runs EXCEPT
               ![self] = _add_io(component_runs[self], <<output>>, FALSE)]
    /\ last' = Returned("add_output", self)
    /\ UNCHANGED <<others, io_pointers, entity_runs, clock, next_id>>

add_outputs(self, outputs) ==
    /\ component_runs' =
           [component_runs EXCEPT
               ![self] = _add_io(component_runs[self], outputs, FALSE)]
    /\ last' = Returned("add_outputs", self)
    /\ UNCHANGED <<others, io_pointers, entity_runs, clock, next_id>>

(* ---------------------------------------------------------------------- *)
(* db layer: dependencies, persistence, completeness, staleness            *)
(* ---------------------------------------------------------------------- *)
\* a ComponentRun reference and a list of them, as arguments
run(r) == [type |-> "ComponentRun", v |-> r]
list(l) == [type |-> "list", v |-> l]

\* faulty variant of set_upstream: the duplicates are not dropped
set_upstream_no_dedup(self, dependencies) ==
    LET deps == IF ~isinstance(dependencies, "list")
                THEN <<dependencies.v>> ELSE dependencies.v
    IN  /\ component_runs' =
               [component_runs EXCEPT
                   ![self].dependencies = component_runs[self].dependencies \o deps]
        /\ last' = Returned("set_upstream", self)
        /\ UNCHANGED <<others, io_pointers, entity_runs, clock, next_id>>

\* faulty variant of set_upstream: a dependency on the run itself is dropped
set_upstream_reject_self(self, dependencies) ==
    LET deps == IF ~isinstance(dependencies, "list")
                THEN <<dependencies.v>> ELSE dependencies.v
    IN  /\ component_runs' =
               [component_runs EXCEPT
                   ![self].dependencies =
                       SelectSeq(
                           ListOfSet(component_runs[self].dependencies \o deps),
                           LAMBDA d : d # self)]
        /\ last' = Returned("set_upstream", self)
        /\ UNCHANGED <<others, io_pointers, entity_runs, clock, next_id>>

set_upstream(self, dependencies) ==
    LET deps == IF ~isinstance(dependencies, "list")
                THEN <<dependencies.v>> ELSE dependencies.v
    IN  /\ component_runs' =
               [component_runs EXCEPT
                   ![self].dependencies =
                       ListOfSet(component_runs[self].dependencies \o deps)]
        /\ last' = Returned("set_upstream", self)
        /\ UNCHANGED <<others, io_pointers, entity_runs, clock, next_id>>

\* Store.commit_component_run (called by log_component_run_wrapper): the store
\* persists the run and assigns its primary key
commit_component_run(self) ==
    /\ component_runs[self].id = None
    /\ component_runs' = [component_runs EXCEPT ![self].id = int(next_id)]
    /\ next_id' = next_id + 1
    /\ last' = Returned("commit_component_run", self)
    /\ UNCHANGED <<others, io_pointers, entity_runs, clock>>

\* one sentence of status_dict["msg"]
Msg(component_name, text) == <<component_name, text>>

\* [x.id for x in self.dependencies]
DependencyIds(r) ==
    {component_runs[r.dependencies[i]].id : i \in DOMAIN r.dependencies}

\* faulty variant of check_completeness_of: the end timestamp is not looked at
check_completeness_no_end(r) ==
    LET s0 == [success |-> TRUE, msg |-> <<>>]
        s1 == IF r.start_timestamp = None
              THEN [success |-> FALSE,
                    msg |-> Append(s0.msg,
                                   Msg(r.component_name, "has no start timestamp"))]
              ELSE s0
        s3 == IF Len(r.inputs) = 0
              THEN [s1 EXCEPT !.msg =
                        Append(s1.msg, Msg(r.component_name, "has no inputs"))]
              ELSE s1
        s4 == IF Len(r.outputs) = 0
              THEN [s3 EXCEPT !.msg =
                        Append(s3.msg, Msg(r.component_name, "has no outputs"))]
              ELSE s3
        s5 == IF Len(r.dependencies) = 0
              THEN [s4 EXCEPT !.msg =
                        Append(s4.msg,
                               Msg(r.component_name, "has no dependencies"))]
              ELSE s4
        s6 == IF bool(r.id) /\ r.id \in DependencyIds(r)
              THEN [success |-> FALSE,
                    msg |-> Append(s5.msg,
                                   Msg(r.component_name,
                                       "has a circular dependency"))]
              ELSE s5
    IN  s6

\* faulty variant of check_completeness_of: the check stops at the first fatal rule
check_completeness_short_circuit(r) ==
    IF r.start_timestamp = None
    THEN [success |-> FALSE,
          msg |-> <<Msg(r.component_name, "has no start timestamp")>>]
    ELSE check_completeness_no_end(r)

\* ComponentRun.check_completeness: status_dict after each if statement
check_completeness_of(r) ==
    LET s0 == [success |-> TRUE, msg |-> <<>>]
        s1 == IF r.start_timestamp = None
              THEN [success |-> FALSE,
                    msg |-> Append(s0.msg,
                                   Msg(r.component_name, "has no start timestamp"))]
              ELSE s0
        s2 == IF r.end_timestamp = None
              THEN [success |-> FALSE,
                    msg |-> Append(s1.msg,
                                   Msg(r.component_name, "has no end timestamp"))]
              ELSE s1
        s3 == IF Len(r.inputs) = 0
              THEN [s2 EXCEPT !.msg =
                        Append(s2.msg, Msg(r.component_name, "has no inputs"))]
              ELSE s2
        s4 == IF Len(r.outputs) = 0
              THEN [s3 EXCEPT !.msg =
                        Append(s3.msg, Msg(r.component_name, "has no outputs"))]
              ELSE s3
        s5 == IF Len(r.dependencies) = 0
              THEN [s4 EXCEPT !.msg =
                        Append(s4.msg,
                               Msg(r.component_name, "has no dependencies"))]
              ELSE s4
        s6 == IF bool(r.id) /\ r.id \in DependencyIds(r)
              THEN [success |-> FALSE,
                    msg |-> Append(s5.msg,
                                   Msg(r.component_name,
                                       "has a circular dependency"))]
              ELSE s5
    IN  s6

\* the call run.check_completeness(), returning status_dict
check_completeness(self) ==
    /\ last' = Call("check_completeness", self, "none",
                    check_completeness_of(component_runs[self]))
    /\ UNCHANGED <<others, component_runs, io_pointers, entity_runs, clock, next_id>>

\* faulty variant of add_staleness_message: a message already recorded is not
\* recorded again
add_staleness_message_dedup(r, message) ==
    IF message \in Range(r.stale) THEN r
    ELSE [r EXCEPT !.stale = r.stale \o <<message>>]

\* faulty variant of add_staleness_message_of: the message is put in front
add_staleness_message_prepend(r, message) ==
    [r EXCEPT !.stale = <<message>> \o r.stale]

\* ComponentRun.add_staleness_message: the run with the message recorded
add_staleness_message_of(r, message) ==
    [r EXCEPT !.stale = r.stale \o <<message>>]

\* the call run.add_staleness_message(message)
add_staleness_message(self, message) ==
    /\ Len(component_runs[self].stale) < MaxStale
    /\ component_runs' =
           [component_runs EXCEPT
               ![self] = add_staleness_message_of(component_runs[self], message)]
    /\ last' = Returned("add_staleness_message", self)
    /\ UNCHANGED <<others, io_pointers, entity_runs, clock, next_id>>

(* ---------------------------------------------------------------------- *)
(* staleness propagation over the reverse dependency relation              *)
(* ---------------------------------------------------------------------- *)
\* findDependents(run): the runs that list it as a dependency
findDependents(runs, r) ==
    SelectSeq([i \in DOMAIN runs |-> i],
              LAMBDA d : r \in Range(runs[d].dependencies))

\* the breadth-first walk: every record taken off the queue for the first
\* time gets the message and has its own dependents queued
RECURSIVE Traverse(_, _, _, _)
Traverse(queue, visited, runs, reason) ==
    IF queue = <<>> THEN [visited |-> visited, runs |-> runs]
    ELSE LET r == Head(queue)
         IN  IF r \in visited
             THEN Traverse(Tail(queue), visited, runs, reason)
             ELSE Traverse(
                      Tail(queue) \o findDependents(runs, r),
                      visited \cup {r},
                      [runs EXCEPT ![r] = add_staleness_message_of(runs[r], reason)],
                      reason)

\* one propagation call from origin; it returns the runs it marked
propagate_staleness(origin, reason) ==
    LET done == Traverse(findDependents(component_runs, origin), {},
                         component_runs, reason)
    IN  /\ \A r \in DbRuns : Len(done.runs[r].stale) <= MaxStale
        /\ component_runs' = done.runs
        /\ last' = Call("propagate_staleness", origin, "none", done.visited)
        /\ UNCHANGED <<others, io_pointers, entity_runs, clock, next_id>>

(* ---------------------------------------------------------------------- *)
(* entity layer: ComponentRun (entities/component_run.py)                  *)
(* ---------------------------------------------------------------------- *)
EntityRuns == DOMAIN entity_runs

\* The defaults inputs=[], outputs=[], stale=[], dependencies=[] of
\* ComponentRun.__init__ are four list objects made once, when the def
\* statement runs; they are the first four objects of the heap lists
DefaultInputs == 1
DefaultOutputs == 2
DefaultStale == 3
DefaultDependencies == 4
DefaultLists == <<<<>>, <<>>, <<>>, <<>>>>

\* ComponentRun.__init__(component_name, notes=...), the other parameters
\* left at their defaults: the attributes are bound to the default objects
EntityComponentRun__init__(component_name, notes) ==
    [component_name |-> component_name,
     notes |-> notes,
     start_timestamp |-> None,
     end_timestamp |-> None,
     inputs |-> DefaultInputs,
     outputs |-> DefaultOutputs,
     id |-> None,
     stale |-> DefaultStale,
     dependencies |-> DefaultDependencies]

\* @notes.setter
entity_notes_setter(self, notes) ==
    IF ~isinstance(notes, "str")
    THEN /\ last' = Raised("Entity.notes", self, "TypeError")
         /\ UNCHANGED
                <<others, component_runs, io_pointers, entity_runs, clock, next_id>>
    ELSE /\ entity_runs' = [entity_runs EXCEPT ![self].notes = notes]
         /\ last' = Returned("Entity.notes", self)
         /\ UNCHANGED <<others, component_runs, io_pointers, clock, next_id>>

entity_set_start_timestamp(self, arg) ==
    LET ts == IF arg = None THEN utcnow ELSE arg
    IN  IF ~isinstance(ts, "datetime")
        THEN /\ last' =
                    Raised("Entity.set_start_timestamp", self, "TypeError")
             /\ UNCHANGED
                    <<others, component_runs, io_pointers, entity_runs, clock, next_id>>
        ELSE /\ entity_runs' =
                    [entity_runs EXCEPT ![self].start_timestamp = ts]
             /\ last' = Returned("Entity.set_start_timestamp", self)
             /\ UNCHANGED <<others, component_runs, io_pointers, clock, next_id>>

entity_set_end_timestamp(self, arg) ==
    LET ts == IF arg = None THEN utcnow ELSE arg
    IN  IF ~isinstance(ts, "datetime")
        THEN /\ last' =
                    Raised("Entity.set_end_timestamp", self, "TypeError")
             /\ UNCHANGED
                    <<others, component_runs, io_pointers, entity_runs, clock, next_id>>
        ELSE /\ entity_runs' =
                    [entity_runs EXCEPT ![self].end_timestamp = ts]
             /\ last' = Returned("Entity.set_end_timestamp", self)
             /\ UNCHANGED <<others, component_runs, io_pointers, clock, next_id>>

\* the strings of the entity layer (component names, pointer names) are
\* numbered; str.__hash__ and str.__eq__ go by the value, so the number
\* stands for both
EntityStrings == {1, 2}

\* the list objects an entity run holds, read through the heap
EntityInputs(r) == lists[entity_runs[r].inputs]
EntityOutputs(r) == lists[entity_runs[r].outputs]
EntityDependencies(r) == lists[entity_runs[r].dependencies]
EntityStale(r) == lists[entity_runs[r].stale]

\* ComponentRun.set_upstream of the entity layer: both statements bind
\* _dependencies to a new list; the concatenation is dropped by the second
\* statement, so the list(set(...)) is the object that stays
entity_set_upstream(self, dependencies) ==
    LET deps == IF ~isinstance(dependencies, "list")
                THEN <<dependencies.v>> ELSE dependencies.v
    IN  /\ Len(lists) < MaxLists
        /\ lists' = Append(lists, ListOfSet(EntityDependencies(self) \o deps))
        /\ entity_runs' =
               [entity_runs EXCEPT ![self].dependencies = Len(lists) + 1]
        /\ last' = Returned("Entity.set_upstream", self)
        /\ UNCHANGED <<component_runs, io_pointers, clock, next_id,
                       components, tags, labels>>

\* an entity-layer IOPointer as an argument; the class (entities/io_pointer)
\* compares and hashes by its name, the value left at its default
iop(name) == [type |-> "IOPointer", v |-> name]

\* IOPointer(inp, pointer_type) of the entity layer
EntityIOPointer(name) == iop(name)

\* faulty variant of entity_add_io: the list the attribute is bound to is
\* changed in place
entity_add_io_in_place(self, elems, input) ==
    LET es == IF ~isinstance(elems, "list") THEN <<elems.v>> ELSE elems.v
        ref == IF input THEN entity_runs[self].inputs
               ELSE entity_runs[self].outputs
    IN  /\ Len(lists) < MaxLists
        /\ lists' = [lists EXCEPT ![ref] = ListOfSet(lists[ref] \o es)]
        /\ UNCHANGED <<component_runs, io_pointers, entity_runs, clock,
                       next_id, components, tags, labels>>

\* ComponentRun._add_io of the entity layer: list(set(...)) is a new list
\* object, and the inputs / outputs setter binds the attribute to it
entity_add_io(self, elems, input) ==
    LET es == IF ~isinstance(elems, "list") THEN <<elems.v>> ELSE elems.v
    IN  /\ Len(lists) < MaxLists
        /\ IF input
           THEN /\ lists' = Append(lists, ListOfSet(EntityInputs(self) \o es))
                /\ entity_runs' =
                       [entity_runs EXCEPT ![self].inputs = Len(lists) + 1]
           ELSE /\ lists' = Append(lists, ListOfSet(EntityOutputs(self) \o es))
                /\ entity_runs' =
                       [entity_runs EXCEPT ![self].outputs = Len(lists) + 1]
        /\ UNCHANGED <<component_runs, io_pointers, clock, next_id,
                       components, tags, labels>>

\* ComponentRun.add_input of the entity layer: inp is an IOPointer or a name
entity_add_input(self, inp) ==
    /\ IF isinstance(inp, "IOPointer")
       THEN entity_add_io(self, inp, TRUE)
       ELSE entity_add_io(self, EntityIOPointer(inp.v), TRUE)
    /\ last' = Returned("Entity.add_input", self)

\* ComponentRun.add_output of the entity layer
entity_add_output(self, out) ==
    /\ IF isinstance(out, "IOPointer")
       THEN entity_add_io(self, out, FALSE)
       ELSE entity_add_io(self, EntityIOPointer(out.v), FALSE)
    /\ last' = Returned("Entity.add_output", self)

(* ---------------------------------------------------------------------- *)
(* db layer: Component and Tag (models.py)                                 *)
(* ---------------------------------------------------------------------- *)
TagNames == {"a", "b", "c"}

\* Tag.__init__(name)
Tag__init__(name) == [name |-> name]

Tags == DOMAIN tags

\* the constructor call, allocating the next Tag object
TagConstruct(name) ==
    /\ Len(tags) < MaxTags
    /\ tags' = Append(tags, Tag__init__(name))
    /\ last' = Returned("Tag.__init__", Len(tags) + 1)
    /\ UNCHANGED <<component_runs, io_pointers, entity_runs, clock, next_id,
                   components, labels, lists>>

\* Component.__init__(name, description, owner, tags); tags is a mapped
\* relationship, which holds the references it is given
Component__init__(name, description, owner, new_tags) ==
    [name |-> name,
     description |-> description,
     owner |-> owner,
     tags |-> new_tags]

Components == DOMAIN components

\* Component.add_tags: Tag defines neither __eq__ nor __hash__, so set()
\* tells Tag objects apart by identity
add_tags(self, new_tags) ==
    /\ components' =
           [components EXCEPT
               ![self].tags = ListOfSet(components[self].tags \o new_tags)]
    /\ last' = Returned("add_tags", self)
    /\ UNCHANGED <<component_runs, io_pointers, entity_runs, clock, next_id,
                   tags, labels, lists>>

(* ---------------------------------------------------------------------- *)
(* db layer: Label and the labels of an IOPointer (models.py)              *)
(* ---------------------------------------------------------------------- *)
LabelIds == {"pii", "gdpr"}

\* Label.__init__(id)
Label__init__(id) == [id |-> id, io_pointers |-> <<>>]

Labels == DOMAIN labels

\* the constructor call, allocating the next Label object
LabelConstruct(id) ==
    /\ Len(labels) < MaxLabels
    /\ labels' = Append(labels, Label__init__(id))
    /\ last' = Returned("Label.__init__", Len(labels) + 1)
    /\ UNCHANGED <<component_runs, io_pointers, entity_runs, clock, next_id,
                   components, tags, lists>>

\* IOPointer.add_label: self.labels = self.labels + [label]
add_label(self, label) ==
    /\ Len(io_pointers[self].labels) < MaxAttached
    /\ io_pointers' =
           [io_pointers EXCEPT
               ![self].labels = io_pointers[self].labels \o <<label>>]
    /\ last' = Returned("add_label", self)
    /\ UNCHANGED <<component_runs, entity_runs, clock, next_id, others>>

\* IOPointer.add_labels: self.labels = self.labels + labels
add_labels(self, new_labels) ==
    /\ Len(io_pointers[self].labels) + Len(new_labels) <= MaxAttached
    /\ io_pointers' =
           [io_pointers EXCEPT
               ![self].labels = io_pointers[self].labels \o new_labels]
    /\ last' = Returned("add_labels", self)
    /\ UNCHANGED <<component_runs, entity_runs, clock, next_id, others>>

\* IOPointer.dedup_labels: Label defines neither __eq__ nor __hash__
dedup_labels(self) ==
    /\ io_pointers' =
           [io_pointers EXCEPT
               ![self].labels = ListOfSet(io_pointers[self].labels)]
    /\ last' = Returned("dedup_labels", self)
    /\ UNCHANGED <<component_runs, entity_runs, clock, next_id, others>>

(* ---------------------------------------------------------------------- *)
(* the wall clock behind datetime.utcnow()                                 *)
(* ---------------------------------------------------------------------- *)
Tick ==
    /\ clock < MaxClock
    /\ clock' = clock + 1
    /\ UNCHANGED <<others, component_runs, io_pointers, entity_runs, next_id, last>>

(* ---------------------------------------------------------------------- *)
(* Initial states                                                          *)
(* ---------------------------------------------------------------------- *)
InitWith(runs, entities) ==
    /\ component_runs = runs
    /\ io_pointers = <<>>
    /\ entity_runs = entities
    /\ clock = 0
    /\ next_id = 1
    /\ last = Returned("ComponentRun.__init__", 0)
    /\ components = <<>>
    /\ tags = <<>>
    /\ labels = <<>>
    /\ lists = DefaultLists

(* ---------------------------------------------------------------------- *)
(* SpecFields: timestamps and notes of one db run and the entity runs      *)
(* ---------------------------------------------------------------------- *)
\* one db run, and one entity run constructed with any notes argument
InitFields ==
    \E notes \in NotesArgs :
        InitWith(<<ComponentRun__init__("etl")>>,
                 <<EntityComponentRun__init__("etl", notes)>>)

NextFields ==
    \/ \E self \in DbRuns, ts \in TimestampArgs : set_start_timestamp(self, ts)
    \/ \E self \in DbRuns, ts \in TimestampArgs : set_end_timestamp(self, ts)
    \/ \E self \in DbRuns, notes \in NotesArgs : add_notes(self, notes)
    \/ \E self \in EntityRuns, notes \in NotesArgs :
           entity_notes_setter(self, notes)
    \/ \E self \in EntityRuns, ts \in TimestampArgs :
           entity_set_start_timestamp(self, ts)
    \/ \E self \in EntityRuns, ts \in TimestampArgs :
           entity_set_end_timestamp(self, ts)
    \/ Tick

SpecFields == InitFields /\ [][NextFields]_vars

(* ---------------------------------------------------------------------- *)
(* SpecIO: inputs and outputs of one db run                                *)
(* ---------------------------------------------------------------------- *)
InitIO == InitWith(<<ComponentRun__init__("etl")>>, <<>>)

NextIO ==
    \/ \E name \in PointerNames, value \in ByteValues :
           IOPointerConstruct(name, value)
    \/ \E self \in DbRuns, p \in Pointers : add_input(self, p)
    \/ \E self \in DbRuns, ps \in ListsUpTo(Pointers, MaxBulk) :
           add_inputs(self, ps)
    \/ \E self \in DbRuns, p \in Pointers : add_output(self, p)
    \/ \E self \in DbRuns, ps \in ListsUpTo(Pointers, MaxBulk) :
           add_outputs(self, ps)

SpecIO == InitIO /\ [][NextIO]_vars

(* ---------------------------------------------------------------------- *)
(* SpecUpstream: the dependency edges of three runs, their persistence     *)
(* and their completeness check                                            *)
(* ---------------------------------------------------------------------- *)
ThreeRuns ==
    <<ComponentRun__init__("etl"), ComponentRun__init__("training"),
      ComponentRun__init__("inference")>>

InitUpstream == InitWith(ThreeRuns, <<>>)

NextUpstream ==
    \/ \E self \in DbRuns, d \in DbRuns : set_upstream(self, run(d))
    \/ \E self \in DbRuns, ds \in ListsUpTo(DbRuns, MaxBulk) :
           set_upstream(self, list(ds))
    \/ \E self \in DbRuns : commit_component_run(self)
    \/ \E self \in DbRuns : check_completeness(self)

SpecUpstream == InitUpstream /\ [][NextUpstream]_vars

(* ---------------------------------------------------------------------- *)
(* SpecStale: staleness messages over the dependency edges of three runs   *)
(* ---------------------------------------------------------------------- *)
InitStale == InitWith(ThreeRuns, <<>>)

NextStale ==
    \/ \E self \in DbRuns, d \in DbRuns : set_upstream(self, run(d))
    \/ \E self \in DbRuns : add_staleness_message(self, "R")
    \/ \E origin \in DbRuns : propagate_staleness(origin, "R")

SpecStale == InitStale /\ [][NextStale]_vars

(* ---------------------------------------------------------------------- *)
(* SpecTags: the tags of one Component                                     *)
(* ---------------------------------------------------------------------- *)
InitTags ==
    /\ component_runs = <<>>
    /\ io_pointers = <<>>
    /\ entity_runs = <<>>
    /\ clock = 0
    /\ next_id = 1
    /\ last = Returned("Component.__init__", 1)
    /\ components = <<Component__init__("etl", "", "", <<>>)>>
    /\ tags = <<>>
    /\ labels = <<>>
    /\ lists = DefaultLists

NextTags ==
    \/ \E name \in TagNames : TagConstruct(name)
    \/ \E self \in Components, new_tags \in ListsUpTo(Tags, MaxBulk) :
           add_tags(self, new_tags)

SpecTags == InitTags /\ [][NextTags]_vars

(* ---------------------------------------------------------------------- *)
(* SpecLabels: the labels of one IOPointer                                 *)
(* ---------------------------------------------------------------------- *)
InitLabels ==
    /\ component_runs = <<>>
    /\ io_pointers = <<IOPointer__init__("a", "")>>
    /\ entity_runs = <<>>
    /\ clock = 0
    /\ next_id = 1
    /\ last = Returned("IOPointer.__init__", 1)
    /\ components = <<>>
    /\ tags = <<>>
    /\ labels = <<>>
    /\ lists = DefaultLists

NextLabels ==
    \/ \E id \in LabelIds : LabelConstruct(id)
    \/ \E self \in Pointers, label \in Labels : add_label(self, label)
    \/ \E self \in Pointers, new_labels \in ListsUpTo(Labels, MaxBulk) :
           add_labels(self, new_labels)
    \/ \E self \in Pointers : dedup_labels(self)

SpecLabels == InitLabels /\ [][NextLabels]_vars

(* ---------------------------------------------------------------------- *)
(* SpecDeps: set_upstream of both layers, on two db runs and one entity run *)
(* ---------------------------------------------------------------------- *)
InitDeps ==
    InitWith(<<ComponentRun__init__("etl"), ComponentRun__init__("training")>>,
             <<EntityComponentRun__init__("etl", str(0))>>)

NextDeps ==
    \/ \E self \in DbRuns, d \in DbRuns : set_upstream(self, run(d))
    \/ \E self \in DbRuns, ds \in ListsUpTo(DbRuns, MaxBulk) :
           set_upstream(self, list(ds))
    \/ \E self \in EntityRuns, s \in EntityStrings :
           entity_set_upstream(self, str(s))
    \/ \E self \in EntityRuns, ss \in ListsUpTo(EntityStrings, MaxBulk) :
           entity_set_upstream(self, list(ss))

SpecDeps == InitDeps /\ [][NextDeps]_vars

(* ---------------------------------------------------------------------- *)
(* SpecAlias: two entity runs constructed with the default lists           *)
(* ---------------------------------------------------------------------- *)
InitAlias ==
    InitWith(<<>>, <<EntityComponentRun__init__("etl", str(0)),
                     EntityComponentRun__init__("training", str(0))>>)

NextAlias ==
    \/ \E self \in EntityRuns, inp \in {str(1), iop(2)} :
           entity_add_input(self, inp)
    \/ \E self \in EntityRuns, out \in {str(1), iop(2)} :
           entity_add_output(self, out)
    \/ \E self \in EntityRuns, d \in {str(1), list(<<1, 2>>)} :
           entity_set_upstream(self, d)

SpecAlias == InitAlias /\ [][NextAlias]_vars

(* ---------------------------------------------------------------------- *)
(* SpecRun: every method of one db run, next to a second run that is only  *)
(* depended on and persisted                                               *)
(* ---------------------------------------------------------------------- *)
Reasons == {"R", "S"}

InitRun ==
    /\ component_runs =
           <<ComponentRun__init__("etl"), ComponentRun__init__("training")>>
    /\ io_pointers = <<IOPointer__init__("a", "")>>
    /\ entity_runs = <<>>
    /\ clock = 0
    /\ next_id = 1
    /\ last = Returned("ComponentRun.__init__", 0)
    /\ components = <<>>
    /\ tags = <<>>
    /\ labels = <<>>
    /\ lists = DefaultLists

NextRun ==
    \/ \E ts \in {None, str(1)} : set_start_timestamp(1, ts)
    \/ \E ts \in {None, str(1)} : set_end_timestamp(1, ts)
    \/ \E notes \in {str(1), int(1)} : add_notes(1, notes)
    \/ \E p \in Pointers : add_input(1, p)
    \/ \E p \in Pointers : add_inputs(1, <<p, p>>)
    \/ \E p \in Pointers : add_output(1, p)
    \/ \E p \in Pointers : add_outputs(1, <<p, p>>)
    \/ \E d \in DbRuns : set_upstream(1, run(d))
    \/ \E ds \in ListsUpTo(DbRuns, MaxBulk) : set_upstream(1, list(ds))
    \/ \E message \in Reasons : add_staleness_message(1, message)
    \/ \E origin \in DbRuns : propagate_staleness(origin, "R")
    \/ check_completeness(1)
    \/ \E self \in DbRuns : commit_component_run(self)

SpecRun == InitRun /\ [][NextRun]_vars

(* ---------------------------------------------------------------------- *)
(* Claims checked under SpecIO                                             *)
(* ---------------------------------------------------------------------- *)
NoDuplicates(l) == \A i, j \in DOMAIN l : i # j => l[i] # l[j]

C1_EachOnce ==
    \A r \in DbRuns :
        /\ NoDuplicates(component_runs[r].inputs)
        /\ NoDuplicates(component_runs[r].outputs)

SameInputs(self) ==
    /\ Range(component_runs'[self].inputs) = Range(component_runs[self].inputs)
    /\ Len(component_runs'[self].inputs) = Len(component_runs[self].inputs)

SameOutputs(self) ==
    /\ Range(component_runs'[self].outputs) =
           Range(component_runs[self].outputs)
    /\ Len(component_runs'[self].outputs) = Len(component_runs[self].outputs)

C1_AddPresentStep ==
    \A self \in DbRuns :
        /\ \A p \in Pointers :
               /\ (/\ Called("add_input", self)
                   /\ p \in Range(component_runs[self].inputs)
                   /\ add_input(self, p)) => SameInputs(self)
               /\ (/\ Called("add_output", self)
                   /\ p \in Range(component_runs[self].outputs)
                   /\ add_output(self, p)) => SameOutputs(self)
        /\ \A ps \in ListsUpTo(Pointers, MaxBulk) :
               /\ (/\ Called("add_inputs", self)
                   /\ Range(ps) \subseteq Range(component_runs[self].inputs)
                   /\ add_inputs(self, ps)) => SameInputs(self)
               /\ (/\ Called("add_outputs", self)
                   /\ Range(ps) \subseteq Range(component_runs[self].outputs)
                   /\ add_outputs(self, ps)) => SameOutputs(self)

SameArtifact(p, q) ==
    /\ io_pointers[p].name = io_pointers[q].name
    /\ io_pointers[p].value = io_pointers[q].value

OnePerKey(l) == \A i, j \in DOMAIN l : i # j => ~SameArtifact(l[i], l[j])

\* C2: artifact identity is the pair (name, value): separately constructed
\* IOPointers with equal (name, value) added to one run's inputs (or
\* outputs) are stored as one entry.
C2_DedupByNameValue ==
    \A r \in DbRuns :
        /\ OnePerKey(component_runs[r].inputs)
        /\ OnePerKey(component_runs[r].outputs)

(* ---------------------------------------------------------------------- *)
(* Claims checked under SpecUpstream                                       *)
(* ---------------------------------------------------------------------- *)
Dependencies(r) == Range(component_runs[r].dependencies)

Circular(r) == Msg(component_runs[r].component_name, "has a circular dependency")

\* the last call was check_completeness and reported a fatal cycle
FatalCycleReported ==
    /\ last.ret.success = FALSE
    /\ Circular(last.self) \in Range(last.ret.msg)

\* the dependency edges are exactly a -> b -> c -> a
ThreeCycle(a, b, c) ==
    /\ Cardinality({a, b, c}) = 3
    /\ Dependencies(a) = {b}
    /\ Dependencies(b) = {c}
    /\ Dependencies(c) = {a}

Persisted(r) == component_runs[r].id # None

\* C4: for three persisted runs whose dependency edges form the cycle
\* A -> B -> C -> A, check_completeness on any of them returns success=false
\* with the fatal circular-dependency message.
C4_CycleReported ==
    (/\ last.op = "check_completeness"
     /\ \A r \in DbRuns : Persisted(r)
     /\ \E b, c \in DbRuns : ThreeCycle(last.self, b, c)) => FatalCycleReported

(* ---------------------------------------------------------------------- *)
(* Claims checked under SpecRun                                            *)
(* ---------------------------------------------------------------------- *)
\* the run the last call acted on
Self == component_runs[last.self]

\* C3 as stated: set_upstream rejects a dependency equal to the run itself,
\* so no run is ever among its own dependencies.
C3_NoSelfDependency == \A r \in DbRuns : r \notin Dependencies(r)

UpstreamArgs ==
    {run(d) : d \in DbRuns} \cup {list(ds) : ds \in ListsUpTo(DbRuns, MaxBulk)}

NamesSelf(self, arg) ==
    IF isinstance(arg, "list") THEN self \in Range(arg.v) ELSE arg.v = self

C3_AcceptedStep ==
    \A self \in DbRuns :
        Called("set_upstream", self) =>
            \/ /\ last'.exc = "none"
               /\ self \in Range(component_runs'[self].dependencies)
            \/ \A arg \in UpstreamArgs :
                   NamesSelf(self, arg) => ~set_upstream(self, arg)

C3_FlaggedAtCheck ==
    (/\ last.op = "check_completeness"
     /\ component_runs[last.self].id # None
     /\ last.self \in Dependencies(last.self)) => FatalCycleReported

\* C3 as amended: set_upstream accepts a dependency equal to the run itself
\* (alone or inside a list): the call returns normally and the run is then
\* among its own dependencies; the self-dependency is reported only by
\* check_completeness, which on a run with an assigned id that lists itself
\* returns success=false with the circular-dependency message.
C3_SelfDependencyDeferred == []C3_FlaggedAtCheck /\ [][C3_AcceptedStep]_vars

\* a persisted run that depends on itself was checked and found circular
C3_Witness ==
    /\ last.op = "check_completeness"
    /\ last.self = 1
    /\ component_runs[1].id = int(1)
    /\ component_runs[1].dependencies = <<1>>
    /\ FatalCycleReported

\* rule 6: the run has an assigned id that is among its dependencies' ids
SelfReference(r) == r.id # None /\ r.id \in DependencyIds(r)

\* C5: check_completeness returns success=true exactly when the start
\* timestamp is set, the end timestamp is set, and the run has no assigned
\* id that is among its dependencies' ids; empty inputs, outputs and
\* dependencies do not enter.
C5_SuccessIff ==
    last.op = "check_completeness" =>
        (last.ret.success <=>
            /\ Self.start_timestamp # None
            /\ Self.end_timestamp # None
            /\ ~SelfReference(Self))

\* the check succeeded on a run with no inputs, outputs or dependencies
C5_Witness ==
    /\ last.op = "check_completeness"
    /\ last.ret.success
    /\ Self.inputs = <<>>
    /\ Self.outputs = <<>>
    /\ Self.dependencies = <<>>

Reported(text) == Msg(Self.component_name, text) \in Range(last.ret.msg)

Unset(r) ==
    /\ r.start_timestamp = None
    /\ r.end_timestamp = None
    /\ r.inputs = <<>>
    /\ r.outputs = <<>>
    /\ r.dependencies = <<>>

\* C6: the six rules are evaluated independently: the result holds a
\* rule's message exactly when that rule's condition holds, so a run with
\* no timestamps and no inputs, outputs or dependencies gets success=false
\* and five distinct messages.
C6_RulesIndependent ==
    last.op = "check_completeness" =>
        /\ Reported("has no start timestamp") <=> Self.start_timestamp = None
        /\ Reported("has no end timestamp") <=> Self.end_timestamp = None
        /\ Reported("has no inputs") <=> Self.inputs = <<>>
        /\ Reported("has no outputs") <=> Self.outputs = <<>>
        /\ Reported("has no dependencies") <=> Self.dependencies = <<>>
        /\ Reported("has a circular dependency") <=> SelfReference(Self)
        /\ Unset(Self) =>
               /\ last.ret.success = FALSE
               /\ Cardinality(Range(last.ret.msg)) = 5
               /\ Len(last.ret.msg) = 5

\* a persisted run with nothing set was checked: five messages, no success
C6_Witness ==
    /\ last.op = "check_completeness"
    /\ Unset(Self)
    /\ Self.id # None
    /\ Len(last.ret.msg) = 5
    /\ ~last.ret.success

Stale(r) == component_runs[r].stale

C8_AppendStep ==
    \A self \in DbRuns, message \in Reasons :
        (/\ Called("add_staleness_message", self)
         /\ add_staleness_message(self, message)) =>
            component_runs'[self].stale = Append(Stale(self), message)

\* every log keeps what it held, in place
C8_KeptStep ==
    \A r \in DbRuns :
        /\ Len(component_runs'[r].stale) >= Len(Stale(r))
        /\ SubSeq(component_runs'[r].stale, 1, Len(Stale(r))) = Stale(r)

\* C8: stale is an append-only log: add_staleness_message(m) extends it by
\* exactly the one element m at its end, also when m is in it already, and
\* no method of the run removes or reorders what is recorded.
C8_AppendOnly == [][C8_AppendStep /\ C8_KeptStep]_vars

\* a message was recorded a second time
C8_Witness ==
    /\ last = Returned("add_staleness_message", 1)
    /\ Stale(1) = <<"S", "S">>

(* ---------------------------------------------------------------------- *)
(* Claims checked under SpecStale                                          *)
(* ---------------------------------------------------------------------- *)
\* the runs from which S is reached along dependency edges, S included
RECURSIVE DependentsClosure(_)
DependentsClosure(S) ==
    LET more == S \cup {d \in DbRuns : Dependencies(d) \cap S # {}}
    IN  IF more = S THEN S ELSE DependentsClosure(more)

\* the runs that depend on origin, directly or through other runs
TransitiveDependents(origin) ==
    DependentsClosure({d \in DbRuns : origin \in Dependencies(d)})

C7_PropagateStep ==
    \A origin \in DbRuns :
        Called("propagate_staleness", origin) =>
            \A r \in DbRuns :
                component_runs'[r].stale =
                    IF r \in TransitiveDependents(origin)
                    THEN Append(Stale(r), "R")
                    ELSE Stale(r)

\* C7: one propagation from origin with reason R appends R exactly once to
\* the log of every run that transitively depends on the origin and to no
\* other log, so a second propagation leaves two messages, not one.
C7_OncePerPropagation == [][C7_PropagateStep]_vars

\* the chain 3 -> 2 -> 1 after two propagations from run 1
C7_Witness ==
    /\ last.op = "propagate_staleness"
    /\ last.self = 1
    /\ component_runs[2].dependencies = <<1>>
    /\ component_runs[3].dependencies = <<2>>
    /\ component_runs[1].dependencies = <<>>
    /\ Stale(1) = <<>>
    /\ Stale(2) = <<"R", "R">>
    /\ Stale(3) = <<"R", "R">>

(* ---------------------------------------------------------------------- *)
(* Claims checked under SpecFields                                         *)
(* ---------------------------------------------------------------------- *)
NonTime(ts) == ts # None /\ ~isinstance(ts, "datetime")

\* the two timestamps of the object a call acted on are as before the call
DbTimestampsKept(self) ==
    /\ component_runs'[self].start_timestamp =
           component_runs[self].start_timestamp
    /\ component_runs'[self].end_timestamp = component_runs[self].end_timestamp

EntityTimestampsKept(self) ==
    /\ entity_runs'[self].start_timestamp = entity_runs[self].start_timestamp
    /\ entity_runs'[self].end_timestamp = entity_runs[self].end_timestamp

C9_DbStep ==
    \A self \in DbRuns, ts \in TimestampArgs :
        /\ (/\ Called("set_start_timestamp", self)
            /\ set_start_timestamp(self, ts)) =>
               /\ NonTime(ts) =>
                      last'.exc = "TypeError" /\ DbTimestampsKept(self)
               /\ ts = None =>
                      /\ last'.exc = "none"
                      /\ component_runs'[self].start_timestamp = datetime(clock)
                      /\ component_runs'[self].end_timestamp =
                             component_runs[self].end_timestamp
        /\ (/\ Called("set_end_timestamp", self)
            /\ set_end_timestamp(self, ts)) =>
               /\ NonTime(ts) =>
                      last'.exc = "TypeError" /\ DbTimestampsKept(self)
               /\ ts = None =>
                      /\ last'.exc = "none"
                      /\ component_runs'[self].end_timestamp = datetime(clock)
                      /\ component_runs'[self].start_timestamp =
                             component_runs[self].start_timestamp

C9_EntityStep ==
    \A self \in EntityRuns, ts \in TimestampArgs :
        /\ (/\ Called("Entity.set_start_timestamp", self)
            /\ entity_set_start_timestamp(self, ts)) =>
               /\ NonTime(ts) =>
                      last'.exc = "TypeError" /\ EntityTimestampsKept(self)
               /\ ts = None =>
                      /\ last'.exc = "none"
                      /\ entity_runs'[self].start_timestamp = datetime(clock)
                      /\ entity_runs'[self].end_timestamp =
                             entity_runs[self].end_timestamp
        /\ (/\ Called("Entity.set_end_timestamp", self)
            /\ entity_set_end_timestamp(self, ts)) =>
               /\ NonTime(ts) =>
                      last'.exc = "TypeError" /\ EntityTimestampsKept(self)
               /\ ts = None =>
                      /\ last'.exc = "none"
                      /\ entity_runs'[self].end_timestamp = datetime(clock)
                      /\ entity_runs'[self].start_timestamp =
                             entity_runs[self].start_timestamp

\* C9: set_start_timestamp / set_end_timestamp (both layers) called with a
\* non-time argument raise TypeError and leave both timestamps as they
\* were; called with no argument they set their own timestamp to the
\* current time and leave the other timestamp as it was.
C9_TimestampSetters == [][C9_DbStep /\ C9_EntityStep]_vars

\* a call was rejected with TypeError on a run whose two timestamps are set
C9_Witness ==
    /\ last = Raised("set_start_timestamp", 1, "TypeError")
    /\ component_runs[1].start_timestamp = datetime(0)
    /\ component_runs[1].end_timestamp = datetime(1)

\* C10: on every path that sets notes (constructor argument, notes setter,
\* add_notes) a non-string value is a TypeError at that call, so notes is a
\* string in every run of either layer.
C10_NotesAlwaysStr ==
    /\ \A r \in DbRuns : isinstance(component_runs[r].notes, "str")
    /\ \A e \in EntityRuns : isinstance(entity_runs[e].notes, "str")

(* ---------------------------------------------------------------------- *)
(* Claims about the tags of a Component (SpecTags)                         *)
(* ---------------------------------------------------------------------- *)
\* the names of the Tag objects in a list of references
TagNamesOf(ts) == {tags[ts[i]].name : i \in DOMAIN ts}

C11_NoDuplicatedName ==
    \A c \in Components :
        \A i, j \in DOMAIN components[c].tags :
            tags[components[c].tags[i]].name = tags[components[c].tags[j]].name
                => i = j

C11_AddStep ==
    \A self \in Components :
        Called("add_tags", self) =>
            \A new_tags \in ListsUpTo(Tags, MaxBulk) :
                add_tags(self, new_tags) =>
                    TagNamesOf(components'[self].tags) =
                        TagNamesOf(components[self].tags)
                            \cup TagNamesOf(new_tags)

\* C11: the tags of a Component merge by union keyed by tag name: no tag
\* name is ever held twice, and an add_tags call leaves exactly the names
\* held before together with the names added (so two adds give the same
\* names in either order, and no add removes a tag).
C11_UnionByName == []C11_NoDuplicatedName /\ [][C11_AddStep]_vars

(* ---------------------------------------------------------------------- *)
(* Claims about the labels of an IOPointer (SpecLabels)                    *)
(* ---------------------------------------------------------------------- *)
\* C12: add_label and add_labels attach labels with set semantics: after any
\* sequence of calls the labels of a pointer hold each label id at most once.
C12_LabelsOnce ==
    \A p \in Pointers :
        \A i, j \in DOMAIN io_pointers[p].labels :
            labels[io_pointers[p].labels[i]].id =
                labels[io_pointers[p].labels[j]].id => i = j

(* ---------------------------------------------------------------------- *)
(* Claims about set_upstream of both layers (SpecDeps)                     *)
(* ---------------------------------------------------------------------- *)
\* what a set_upstream argument names: the one element or those of the list
Named(arg) == IF isinstance(arg, "list") THEN Range(arg.v) ELSE {arg.v}

Once(xs) == \A i, j \in DOMAIN xs : xs[i] = xs[j] => i = j

EntityUpstreamArgs ==
    {str(s) : s \in EntityStrings}
        \cup {list(ss) : ss \in ListsUpTo(EntityStrings, MaxBulk)}

C13_DbStep ==
    \A self \in DbRuns :
        Called("set_upstream", self) =>
            \A arg \in UpstreamArgs :
                set_upstream(self, arg) =>
                    /\ Range(component_runs'[self].dependencies) =
                           Dependencies(self) \cup Named(arg)
                    /\ Once(component_runs'[self].dependencies)

C13_EntityStep ==
    \A self \in EntityRuns :
        Called("Entity.set_upstream", self) =>
            \A arg \in EntityUpstreamArgs :
                entity_set_upstream(self, arg) =>
                    /\ Range(EntityDependencies(self)') =
                           Range(EntityDependencies(self)) \cup Named(arg)
                    /\ Once(EntityDependencies(self)')

\* C13: set_upstream, given one dependency or a list, leaves dependencies
\* equal to the set union of the dependencies before and the arguments, each
\* appearing once and none of the earlier ones removed; in the db layer
\* (runs, told apart as objects) and in the entity layer (names).
C13_SetUnion == [][C13_DbStep]_vars /\ [][C13_EntityStep]_vars

\* both layers hold two dependencies after set_upstream calls
C13_Witness ==
    /\ last.op = "Entity.set_upstream"
    /\ EntityDependencies(1) = <<1, 2>>
    /\ component_runs[1].dependencies = <<1, 2>>

(* ---------------------------------------------------------------------- *)
(* Claims about the default lists of the entity runs (SpecAlias)           *)
(* ---------------------------------------------------------------------- *)
EntityMutators ==
    {"Entity.add_input", "Entity.add_output", "Entity.set_upstream"}

\* the four lists of an entity run, as the run reads them
EntityListsOf(r) ==
    <<EntityInputs(r), EntityOutputs(r), EntityDependencies(r), EntityStale(r)>>

C14_FrameStep ==
    \A self \in EntityRuns :
        (last'.op \in EntityMutators /\ last'.self = self) =>
            \A other \in EntityRuns \ {self} :
                EntityListsOf(other)' = EntityListsOf(other)

\* C14: two entity runs constructed without inputs, outputs, dependencies or
\* stale arguments (so bound to the same default list objects) do not alias:
\* an add_input, add_output or set_upstream call on one leaves the inputs,
\* outputs, dependencies and stale of the other unchanged.
C14_NoAliasing == [][C14_FrameStep]_vars

\* run 1 has an input and a dependency while run 2 is still bound to the
\* default lists, which are still empty
C14_Witness ==
    /\ last.op \in EntityMutators
    /\ last.self = 1
    /\ EntityInputs(1) # <<>>
    /\ EntityDependencies(1) # <<>>
    /\ entity_runs[2].inputs = DefaultInputs
    /\ entity_runs[2].dependencies = DefaultDependencies
    /\ EntityListsOf(2) = <<<<>>, <<>>, <<>>, <<>>>>

====
